---- MODULE Spec2Model ----
(***************************************************************************)
(* Model of the in-process topic-based event bus of package event          *)
(* (src/event/event.go): the eventStream singleton, its dispatch loop      *)
(* (start), stop, emit, subscribe, unsubscribe, and the handler goroutines *)
(* the loop spawns.  Go library primitives used by the code are modelled   *)
(* by their documented behaviour: a buffered channel (non-blocking send,   *)
(* send on a closed channel panics, receive drains the buffer after        *)
(* close), sync.Once, sync.WaitGroup (counter, waiter, wake-up check),     *)
(* sync.RWMutex (held read locks; a write section is one step),            *)
(* atomic.Bool / atomic.Uint64, and an unrecovered panic that terminates   *)
(* the process.                                                            *)
(***************************************************************************)
EXTENDS Integers, Sequences, FiniteSets, TLC

\* ---------------------------------------------------------------- bounds
\* the number of operations of a run: the calls the callers make (emit,
\* subscribe, unsubscribe, stop) plus the events the loop dequeues
MaxOps == 5

\* ------------------------------------------------------ program constants
\* capacity of eventch: make(chan event, 128)
QueueCap == 128

Emitters == {"p1"}
Stoppers == {"s1", "s2"}
Topics == {"a", "b"}
\* the zero value of the loop variable evt
NoEvent == [topic |-> "", message |-> 0]

VARIABLES
    closed,        \* e.closed (atomic.Bool)
    cancelled,     \* e.ctx is cancelled (e.cancel() was called)
    chClosed,      \* e.eventch has been closed
    eventch,       \* buffered contents of e.eventch
    subs,          \* e.subs: map topic -> list of Subscription
    subIDCounter,  \* package-level atomic counter
    wgCount,       \* e.wg counter
    wgWaiters,     \* e.wg number of blocked waiters
    wgSema,        \* e.wg semaphore: released wake-ups not yet consumed
    mu,            \* e.mu: number of read locks held (write sections are
                   \* single steps, so no state has the write lock held)
    once,          \* e.stopOnce: "fresh", "running", "done"
    lpc,           \* dispatch loop position
    evt,           \* dispatch loop local evt
    handlers,      \* dispatch loop local handlers (the snapshot)
    hidx,          \* dispatch loop position in range handlers
    inv,           \* handler goroutines spawned so far, in spawn order
    epc,           \* per emitter: position and arguments of its emit call
    spc,           \* per stopper: position in its stop call
    fault,         \* "none", or the unrecovered panic that ended the process
    \* history (not read by the program)
    emitLog,       \* one record per emit call, in call order; the payload of
                   \* the k-th call is k, so a payload names its event
    emitCalls,     \* number of emit calls begun since Init
    issued,        \* Subscriptions returned by subscribe, in issue order
    removedIds,    \* ids whose Subscription was passed to unsubscribe
    snapLog,       \* per dequeued event: the registry at the snapshot instant
    stopBodyRuns,  \* number of times the shutdown body was entered
    stopCalls,     \* number of stop() calls begun
    stopReturned,  \* some stop() call has returned
    unsubCalls,    \* number of unsubscribe calls
    lastUnsub,     \* the Subscription passed to the latest unsubscribe call
    issuedAtClear,      \* Len(issued) when stop() cleared the registry
    issuedAtStopReturn  \* Len(issued) when a stop() call first returned

progVars == <<closed, cancelled, chClosed, eventch, subs, subIDCounter, mu,
              wgCount, wgWaiters, wgSema, once, lpc, evt, handlers, hidx,
              inv, fault>>
histVars == <<emitLog, emitCalls, issued, removedIds, snapLog, stopBodyRuns,
              stopCalls, stopReturned, unsubCalls, lastUnsub,
              issuedAtClear, issuedAtStopReturn>>
\* the history of the stop() calls relative to the subscribe calls
stopMarks == <<issuedAtClear, issuedAtStopReturn>>
vars == <<closed, cancelled, chClosed, eventch, subs, subIDCounter, mu,
          wgCount, wgWaiters, wgSema, once, lpc, evt, handlers, hidx,
          inv, epc, spc, fault,
          emitLog, emitCalls, issued, removedIds, snapLog, stopBodyRuns,
          stopCalls, stopReturned, unsubCalls, lastUnsub,
          issuedAtClear, issuedAtStopReturn>>

\* operations so far: calls begun and events dequeued
Ops == emitCalls + Len(issued) + unsubCalls + stopCalls
           + Len(snapLog) + (IF lpc = "snap" THEN 1 ELSE 0)

\* the process is alive: no goroutine has died of an unrecovered panic
Alive == fault = "none"

\* ------------------------------------------------------------- newStream
newStream ==
    /\ closed = FALSE
    /\ cancelled = FALSE
    /\ chClosed = FALSE
    /\ eventch = <<>>
    /\ subs = <<>>
    /\ subIDCounter = 0
    /\ wgCount = 0
    /\ wgWaiters = 0
    /\ wgSema = 0
    /\ mu = 0
    /\ once = "fresh"
    /\ lpc = "select"
    /\ evt = NoEvent
    /\ handlers = <<>>
    /\ hidx = 0
    /\ inv = <<>>
    /\ fault = "none"

IdleCallers ==
    /\ epc = [p \in Emitters |-> [pc |-> "idle", topic |-> "", message |-> 0]]
    /\ spc = [s \in Stoppers |-> "idle"]

\* no call has been made yet
NoCalls ==
    /\ emitCalls = 0
    /\ issued = <<>>
    /\ removedIds = {}
    /\ snapLog = <<>>
    /\ stopBodyRuns = 0
    /\ stopCalls = 0
    /\ stopReturned = FALSE
    /\ unsubCalls = 0
    /\ lastUnsub = [ID |-> 0, Topic |-> ""]
    /\ issuedAtClear = 0
    /\ issuedAtStopReturn = 0

Init ==
    /\ newStream
    /\ IdleCallers
    /\ NoCalls
    /\ emitLog = <<>>

\* the queue one event short of its capacity: QueueCap - 1 events were
\* emitted on topic "a", before any subscribe and before the loop got to run
Backlog == QueueCap - 1
BacklogTopic == "a"

InitBacklog ==
    /\ closed = FALSE
    /\ cancelled = FALSE
    /\ chClosed = FALSE
    /\ eventch = [k \in 1..Backlog |-> [topic |-> BacklogTopic, message |-> k]]
    /\ subs = <<>>
    /\ subIDCounter = 0
    /\ wgCount = 0
    /\ wgWaiters = 0
    /\ wgSema = 0
    /\ mu = 0
    /\ once = "fresh"
    /\ lpc = "select"
    /\ evt = NoEvent
    /\ handlers = <<>>
    /\ hidx = 0
    /\ inv = <<>>
    /\ fault = "none"
    /\ IdleCallers
    /\ NoCalls
    /\ emitLog = [k \in 1..Backlog |->
                    [topic |-> BacklogTopic, outcome |-> "enqueued",
                     late |-> FALSE,
                     nsub |-> 0]]

\* ------------------------------------------------------------------ emit
\* a bug: emit without the closed check
EmitDrops_Never == FALSE

\* if e.closed.Load() { drop }
EmitDrops == closed

\* a bug: a full queue overwrites its oldest event instead of dropping the new
TrySend_Overwrite(q, e) ==
    IF Len(q) < QueueCap THEN Append(q, e) ELSE Append(Tail(q), e)

\* a bug: the send always appends, as to an unbounded queue
TrySend_Unbounded(q, e) == Append(q, e)

\* a bug: the new event is put at the head of the queue
TrySend_Front(q, e) == IF Len(q) < QueueCap THEN <<e>> \o q ELSE q

\* select { case e.eventch <- evt: default: } on an open channel
TrySend(q, e) == IF Len(q) < QueueCap THEN Append(q, e) ELSE q

\* the history record of an emit call on topic t that ended (or not yet) as o
LogEmit(t, o) ==
    Append(emitLog, [topic |-> t, outcome |-> o, late |-> stopReturned,
                     nsub |-> Len(issued)])

\* emit, up to and including the closed check.  Payloads are opaque to the
\* bus: every call carries a fresh one
EmitCall(p) ==
    /\ Alive
    /\ epc[p].pc = "idle"
    /\ Ops < MaxOps
    /\ \E t \in Topics :
          IF EmitDrops
          THEN /\ emitLog' = LogEmit(t, "droppedClosed")
               /\ UNCHANGED epc
          ELSE /\ emitLog' = LogEmit(t, "pending")
               /\ epc' = [epc EXCEPT ![p] = [pc |-> "send", topic |-> t,
                                             message |-> Len(emitLog) + 1]]
    /\ emitCalls' = emitCalls + 1
    /\ UNCHANGED <<progVars, spc, issued, removedIds, snapLog, stopBodyRuns,
                   stopCalls, stopReturned, unsubCalls, lastUnsub,
                   stopMarks>>

\* emit, the non-blocking send; a send on a closed channel panics
EmitSend(p) ==
    /\ Alive
    /\ epc[p].pc = "send"
    /\ LET e == [topic |-> epc[p].topic, message |-> epc[p].message]
           isFull == Len(eventch) >= QueueCap
       IN IF chClosed
          THEN /\ fault' = "sendOnClosed"
               /\ epc' = [epc EXCEPT ![p].pc = "panicked"]
               /\ emitLog' = [emitLog EXCEPT ![e.message].outcome = "fault"]
               /\ UNCHANGED eventch
          ELSE /\ eventch' = TrySend(eventch, e)
               /\ epc' = [epc EXCEPT ![p] = [pc |-> "idle", topic |-> "",
                                             message |-> 0]]
               /\ emitLog' = [emitLog EXCEPT
                                ![e.message].outcome =
                                    IF isFull THEN "droppedFull" ELSE "enqueued"]
               /\ UNCHANGED fault
    /\ UNCHANGED <<closed, cancelled, chClosed, subs, subIDCounter, mu, wgCount,
                   wgWaiters, wgSema, once, lpc, evt, handlers, hidx, inv,
                   spc, emitCalls, issued, removedIds, snapLog, stopBodyRuns,
                   stopCalls, stopReturned, unsubCalls, lastUnsub,
                   stopMarks>>

\* ------------------------------------------------------ subscribe/unsubscribe
\* e.mu.Lock() can be taken: no read lock is held.  A write section (Lock,
\* the update of e.subs, Unlock) makes no blocking call and is one step
CanLock == mu = 0

\* e.subs[topic], the nil slice when the key is absent
Lookup(m, t) == IF t \in DOMAIN m THEN m[t] ELSE <<>>

\* m with m[t] = l
MapSet(m, t, l) == [k \in DOMAIN m \cup {t} |-> IF k = t THEN l ELSE m[k]]

\* a bug: the key stays, bound to the emptied list
MapDelete_KeepsKey(m, t) == [k \in DOMAIN m |-> IF k = t THEN <<>> ELSE m[k]]

\* delete(m, t)
MapDelete(m, t) == [k \in DOMAIN m \ {t} |-> m[k]]

\* a bug: the id is derived from the number of registered subscriptions
NextID_FromRegistry ==
    Cardinality(UNION {{subs[t][i].ID : i \in 1..Len(subs[t])} : t \in DOMAIN subs}) + 1

\* subIDCounter.Add(1); the counter is a uint64 and the bounded number of calls stays far
\* below its wrap-around, so the sum is the plain one
NextID == subIDCounter + 1

\* subscribe runs under e.mu.Lock(); the lock makes its body one step
Subscribe(t) ==
    /\ Alive
    /\ Ops < MaxOps
    /\ CanLock
    /\ LET sub == [ID |-> NextID, Topic |-> t]
       IN /\ subIDCounter' = sub.ID
          /\ subs' = MapSet(subs, t, Append(Lookup(subs, t), sub))
          /\ issued' = Append(issued, sub)
    /\ UNCHANGED <<closed, cancelled, chClosed, eventch, mu, wgCount, wgWaiters,
                   wgSema, once, lpc, evt, handlers, hidx, inv, fault, epc,
                   spc, emitLog, emitCalls, removedIds, snapLog, stopBodyRuns,
                   stopCalls, stopReturned, unsubCalls, lastUnsub,
                   stopMarks>>

\* a bug: the list is cut at the matching entry (list[:i])
DeleteFunc_Truncate(list, id) == SelectSeq(list, LAMBDA s : s.ID < id)

\* a bug: removal by position, where an id that is not found removes the
\* last element
DeleteFunc_ByIndex(list, id) ==
    IF \E i \in 1..Len(list) : list[i].ID = id
    THEN SelectSeq(list, LAMBDA s : s.ID # id)
    ELSE SubSeq(list, 1, Len(list) - 1)

\* slices.DeleteFunc(list, func(s) bool { return s.ID == id })
DeleteFunc(list, id) == SelectSeq(list, LAMBDA s : s.ID # id)

\* the registry after unsubscribe(sub)
Unsubscribed(m, sub) ==
    IF sub.Topic \in DOMAIN m
    THEN LET l == DeleteFunc(m[sub.Topic], sub.ID)
         IN IF Len(l) = 0 THEN MapDelete(m, sub.Topic)
                          ELSE MapSet(m, sub.Topic, l)
    ELSE m

\* the Subscription values a caller passes: those subscribe has returned,
\* whether still registered or not
Handles == {issued[k] : k \in 1..Len(issued)}

\* unsubscribe runs under e.mu.Lock()
Unsubscribe(sub) ==
    /\ Alive
    /\ Ops < MaxOps
    /\ CanLock
    /\ subs' = Unsubscribed(subs, sub)
    /\ removedIds' = removedIds \cup {sub.ID}
    /\ unsubCalls' = unsubCalls + 1
    /\ lastUnsub' = sub
    /\ UNCHANGED <<closed, cancelled, chClosed, eventch, subIDCounter, mu, wgCount,
                   wgWaiters, wgSema, once, lpc, evt, handlers, hidx, inv,
                   fault, epc, spc, emitLog, emitCalls, issued, snapLog,
                   stopBodyRuns, stopCalls, stopReturned, stopMarks>>

\* ------------------------------------------------------------- WaitGroup
\* e.wg.Done(): decrement; the decrement to zero releases the waiters
WgDone ==
    /\ wgCount' = wgCount - 1
    /\ IF wgCount - 1 = 0 /\ wgWaiters > 0
       THEN wgWaiters' = 0 /\ wgSema' = wgSema + wgWaiters
       ELSE UNCHANGED <<wgWaiters, wgSema>>

\* ------------------------------------------------- start (dispatch loop)
\* the select returns from start: case <-e.ctx.Done() is ready, or the
\* receive from e.eventch reports !ok (closed and drained)
LoopExit ==
    /\ Alive
    /\ lpc = "select"
    /\ cancelled \/ (chClosed /\ Len(eventch) = 0)
    /\ lpc' = "exited"
    /\ UNCHANGED <<closed, cancelled, chClosed, eventch, subs, subIDCounter, mu,
                   wgCount, wgWaiters, wgSema, once, evt, handlers, hidx, inv,
                   fault, epc, spc, histVars>>

\* case evt, ok := <-e.eventch with ok: a buffered event is received, also
\* after close and also when ctx.Done() is ready (select picks any ready case)
LoopRecv ==
    /\ Alive
    /\ lpc = "select"
    /\ Len(eventch) > 0
    /\ Ops < MaxOps
    /\ evt' = Head(eventch)
    /\ eventch' = Tail(eventch)
    /\ lpc' = "snap"
    /\ UNCHANGED <<closed, cancelled, chClosed, subs, subIDCounter, mu, wgCount,
                   wgWaiters, wgSema, once, handlers, hidx, inv, fault, epc,
                   spc, emitLog, emitCalls, issued, removedIds, snapLog,
                   stopBodyRuns, stopCalls, stopReturned, unsubCalls,
                   lastUnsub,
                   stopMarks>>

\* a bug: an event on a topic without subscribers falls to the subscribers
\* of some other topic
Snapshot_Fallback(t) ==
    IF t \in DOMAIN subs \/ DOMAIN subs = {} THEN Lookup(subs, t)
    ELSE subs[CHOOSE k \in DOMAIN subs : TRUE]

\* handlers := append([]Subscription(nil), e.subs[evt.topic]...) under RLock
Snapshot(t) == Lookup(subs, t)

\* e.mu.RLock() and the copy of e.subs[evt.topic]; the read lock is free to
\* take in every state, as no state has the write lock held
LoopSnapshot ==
    /\ Alive
    /\ lpc = "snap"
    /\ mu' = mu + 1
    /\ handlers' = Snapshot(evt.topic)
    /\ snapLog' = Append(snapLog, [message |-> evt.message,
                                   reg |-> Lookup(subs, evt.topic),
                                   removed |-> removedIds,
                                   nsub |-> Len(issued)])
    /\ lpc' = "unlock"
    /\ UNCHANGED <<closed, cancelled, chClosed, eventch, subs, subIDCounter,
                   wgCount, wgWaiters, wgSema, once, evt, hidx, inv, fault,
                   epc, spc, emitLog, emitCalls, issued, removedIds,
                   stopBodyRuns, stopCalls, stopReturned, unsubCalls,
                   lastUnsub, stopMarks>>

\* a bug: the read lock is kept while the handlers of the event are started
\* and run
LoopUnlock_Kept ==
    /\ Alive
    /\ lpc = "unlock"
    /\ IF Len(handlers) = 0
       THEN lpc' = "select" /\ hidx' = 0 /\ evt' = NoEvent
       ELSE lpc' = "add" /\ hidx' = 1 /\ UNCHANGED evt
    /\ UNCHANGED <<closed, cancelled, chClosed, eventch, subs, subIDCounter,
                   mu, wgCount, wgWaiters, wgSema, once, handlers, inv, fault,
                   epc, spc, histVars>>

\* e.mu.RUnlock(), then if len(handlers) == 0 { continue }
LoopUnlock ==
    /\ Alive
    /\ lpc = "unlock"
    /\ mu' = mu - 1
    /\ IF Len(handlers) = 0
       THEN lpc' = "select" /\ hidx' = 0 /\ evt' = NoEvent
       ELSE lpc' = "add" /\ hidx' = 1 /\ UNCHANGED evt
    /\ UNCHANGED <<closed, cancelled, chClosed, eventch, subs, subIDCounter,
                   wgCount, wgWaiters, wgSema, once, handlers, inv, fault,
                   epc, spc, histVars>>

\* a bug: the goroutine is started without e.wg.Add(1)
LoopAdd_Skipped ==
    /\ Alive
    /\ lpc = "add"
    /\ lpc' = "go"
    /\ UNCHANGED <<closed, cancelled, chClosed, eventch, subs, subIDCounter, mu,
                   wgCount, wgWaiters, wgSema, once, evt, handlers, hidx, inv,
                   fault, epc, spc, histVars>>

\* e.wg.Add(1)
LoopAdd ==
    /\ Alive
    /\ lpc = "add"
    /\ wgCount' = wgCount + 1
    /\ lpc' = "go"
    /\ UNCHANGED <<closed, cancelled, chClosed, eventch, subs, subIDCounter, mu,
                   wgWaiters, wgSema, once, evt, handlers, hidx, inv, fault,
                   epc, spc, histVars>>

\* a bug: the goroutine closes over the loop variable and sees its last value
GoArgs_LoopVarCaptured ==
    [sub |-> handlers[Len(handlers)], msg |-> evt.message, st |-> "running"]

\* a bug: the loop indexes the live registry instead of its copy
GoArgs_LiveRegistry ==
    LET live == Lookup(subs, evt.topic)
    IN [sub |-> IF hidx <= Len(live) THEN live[hidx] ELSE handlers[hidx],
        msg |-> evt.message, st |-> "running"]

\* the arguments of go func(s Subscription, msg any){...}(sub, evt.message)
GoArgs == [sub |-> handlers[hidx], msg |-> evt.message, st |-> "running"]

\* go func(...): the handler goroutine exists from here on
LoopGo ==
    /\ Alive
    /\ lpc = "go"
    /\ inv' = Append(inv, GoArgs)
    /\ IF hidx < Len(handlers)
       THEN lpc' = "add" /\ hidx' = hidx + 1 /\ UNCHANGED <<evt, handlers>>
       ELSE lpc' = "select" /\ hidx' = 0 /\ evt' = NoEvent /\ handlers' = <<>>
    /\ UNCHANGED <<closed, cancelled, chClosed, eventch, subs, subIDCounter, mu,
                   wgCount, wgWaiters, wgSema, once, fault, epc, spc,
                   histVars>>

\* ------------------------------------------------------ handler goroutine
\* a bug: the first handler to complete cancels the shared context
HandlerReturn_Cancels(i) ==
    /\ Alive
    /\ inv[i].st = "running"
    /\ inv' = [inv EXCEPT ![i].st = "done"]
    /\ WgDone
    /\ cancelled' = TRUE
    /\ UNCHANGED <<closed, chClosed, eventch, subs, subIDCounter, mu,
                   once, lpc, evt, handlers, hidx, fault, epc, spc, histVars>>

\* s.Fn(e.ctx, msg) returns; defer e.wg.Done()
HandlerReturn(i) ==
    /\ Alive
    /\ inv[i].st = "running"
    /\ inv' = [inv EXCEPT ![i].st = "done"]
    /\ WgDone
    /\ UNCHANGED <<closed, cancelled, chClosed, eventch, subs, subIDCounter, mu,
                   once, lpc, evt, handlers, hidx, fault, epc, spc, histVars>>

\* s.Fn(e.ctx, msg) panics: the deferred e.wg.Done() runs, nothing recovers,
\* and the panic leaves the goroutine's top frame: the process terminates
HandlerPanic(i) ==
    /\ Alive
    /\ inv[i].st = "running"
    /\ inv' = [inv EXCEPT ![i].st = "panicked"]
    /\ WgDone
    /\ fault' = "handlerPanic"
    /\ UNCHANGED <<closed, cancelled, chClosed, eventch, subs, subIDCounter, mu,
                   once, lpc, evt, handlers, hidx, epc, spc, histVars>>

\* ------------------------------------------------------------------ stop
\* e.stopOnce.Do(f): the first caller runs f, a caller that arrives while f
\* runs blocks until it is done, a later caller returns at once
StopCall(s) ==
    /\ Alive
    /\ spc[s] = "idle"
    /\ Ops < MaxOps
    /\ stopCalls' = stopCalls + 1
    /\ IF once = "fresh"
       THEN /\ once' = "running"
            /\ spc' = [spc EXCEPT ![s] = "store"]
            /\ stopBodyRuns' = stopBodyRuns + 1
            /\ UNCHANGED stopReturned
       ELSE IF once = "running"
       THEN /\ spc' = [spc EXCEPT ![s] = "onceWait"]
            /\ UNCHANGED <<once, stopBodyRuns, stopReturned>>
       ELSE /\ stopReturned' = TRUE
            /\ UNCHANGED <<once, spc, stopBodyRuns>>
    /\ UNCHANGED <<closed, cancelled, chClosed, eventch, subs, subIDCounter, mu,
                   wgCount, wgWaiters, wgSema, lpc, evt, handlers, hidx, inv,
                   fault, epc, emitLog, emitCalls, issued, removedIds, snapLog,
                   unsubCalls, lastUnsub, stopMarks>>

\* a caller blocked in stopOnce.Do returns once the body has completed
StopOnceReturn(s) ==
    /\ Alive
    /\ spc[s] = "onceWait"
    /\ once = "done"
    /\ spc' = [spc EXCEPT ![s] = "idle"]
    /\ stopReturned' = TRUE
    /\ UNCHANGED <<progVars, epc, emitLog, emitCalls, issued, removedIds,
                   snapLog, stopBodyRuns, stopCalls, unsubCalls, lastUnsub,
                   stopMarks>>

\* e.closed.Store(true)
StopStore(s) ==
    /\ Alive
    /\ spc[s] = "store"
    /\ closed' = TRUE
    /\ spc' = [spc EXCEPT ![s] = "cancel"]
    /\ UNCHANGED <<cancelled, chClosed, eventch, subs, subIDCounter, mu, wgCount,
                   wgWaiters, wgSema, once, lpc, evt, handlers, hidx, inv,
                   fault, epc, histVars>>

\* e.cancel()
StopCancel(s) ==
    /\ Alive
    /\ spc[s] = "cancel"
    /\ cancelled' = TRUE
    /\ spc' = [spc EXCEPT ![s] = "close"]
    /\ UNCHANGED <<closed, chClosed, eventch, subs, subIDCounter, mu, wgCount,
                   wgWaiters, wgSema, once, lpc, evt, handlers, hidx, inv,
                   fault, epc, histVars>>

\* close(e.eventch)
StopClose(s) ==
    /\ Alive
    /\ spc[s] = "close"
    /\ chClosed' = TRUE
    /\ spc' = [spc EXCEPT ![s] = "wait"]
    /\ UNCHANGED <<closed, cancelled, eventch, subs, subIDCounter, mu, wgCount,
                   wgWaiters, wgSema, once, lpc, evt, handlers, hidx, inv,
                   fault, epc, histVars>>

\* e.wg.Wait(), entry: return at once on a zero counter, else register as a
\* waiter and block on the semaphore
StopWait(s) ==
    /\ Alive
    /\ spc[s] = "wait"
    /\ IF wgCount = 0
       THEN /\ spc' = [spc EXCEPT ![s] = "clear"]
            /\ UNCHANGED wgWaiters
       ELSE /\ spc' = [spc EXCEPT ![s] = "blocked"]
            /\ wgWaiters' = wgWaiters + 1
    /\ UNCHANGED <<closed, cancelled, chClosed, eventch, subs, subIDCounter, mu,
                   wgCount, wgSema, once, lpc, evt, handlers, hidx, inv,
                   fault, epc, histVars>>

\* e.wg.Wait(), wake-up: the waiter released by the last Done re-reads the
\* state and panics ("WaitGroup is reused before previous Wait has returned")
\* when an Add has made it non-zero in between
StopWake(s) ==
    /\ Alive
    /\ spc[s] = "blocked"
    /\ wgSema > 0
    /\ wgSema' = wgSema - 1
    /\ IF wgCount # 0 \/ wgWaiters # 0
       THEN /\ fault' = "waitGroupReuse"
            /\ spc' = [spc EXCEPT ![s] = "panicked"]
       ELSE /\ spc' = [spc EXCEPT ![s] = "clear"]
            /\ UNCHANGED fault
    /\ UNCHANGED <<closed, cancelled, chClosed, eventch, subs, subIDCounter, mu,
                   wgCount, wgWaiters, once, lpc, evt, handlers, hidx, inv,
                   epc, histVars>>

\* a bug: stop that leaves the registry as it is
ClearedRegistry_Kept == subs

\* make(map[string][]Subscription): the empty registry
ClearedRegistry == <<>>

\* e.subs = make(map[string][]Subscription) under e.mu.Lock()
StopClear(s) ==
    /\ Alive
    /\ spc[s] = "clear"
    /\ CanLock
    /\ subs' = ClearedRegistry
    /\ spc' = [spc EXCEPT ![s] = "return"]
    /\ issuedAtClear' = Len(issued)
    /\ UNCHANGED <<closed, cancelled, chClosed, eventch, subIDCounter, mu, wgCount,
                   wgWaiters, wgSema, once, lpc, evt, handlers, hidx, inv,
                   fault, epc, emitLog, emitCalls, issued, removedIds, snapLog,
                   stopBodyRuns, stopCalls, stopReturned, unsubCalls,
                   lastUnsub, issuedAtStopReturn>>

\* after e.mu.Unlock() the body, and with it stopOnce.Do and stop, return
StopReturn(s) ==
    /\ Alive
    /\ spc[s] = "return"
    /\ once' = "done"
    /\ spc' = [spc EXCEPT ![s] = "idle"]
    /\ stopReturned' = TRUE
    /\ issuedAtStopReturn' = IF stopReturned THEN issuedAtStopReturn
                                             ELSE Len(issued)
    /\ UNCHANGED <<closed, cancelled, chClosed, eventch, subs, subIDCounter, mu,
                   wgCount, wgWaiters, wgSema, lpc, evt, handlers, hidx, inv,
                   fault, epc, emitLog, emitCalls, issued, removedIds, snapLog,
                   stopBodyRuns, stopCalls, unsubCalls, lastUnsub,
                   issuedAtClear>>

\* ---------------------------------------------------------- specification
Next ==
    \/ \E p \in Emitters : EmitCall(p)
    \/ \E p \in Emitters : EmitSend(p)
    \/ \E t \in Topics : Subscribe(t)
    \/ \E sub \in Handles : Unsubscribe(sub)
    \/ LoopExit
    \/ LoopRecv
    \/ LoopSnapshot
    \/ LoopUnlock
    \/ LoopAdd
    \/ LoopGo
    \/ \E i \in 1..Len(inv) : HandlerReturn(i)
    \/ \E i \in 1..Len(inv) : HandlerPanic(i)
    \/ \E s \in Stoppers : StopCall(s)
    \/ \E s \in Stoppers : StopOnceReturn(s)
    \/ \E s \in Stoppers : StopStore(s)
    \/ \E s \in Stoppers : StopCancel(s)
    \/ \E s \in Stoppers : StopClose(s)
    \/ \E s \in Stoppers : StopWait(s)
    \/ \E s \in Stoppers : StopWake(s)
    \/ \E s \in Stoppers : StopClear(s)
    \/ \E s \in Stoppers : StopReturn(s)

Spec == Init /\ [][Next]_vars

\* the same program started from a nearly full queue
SpecBacklog == InitBacklog /\ [][Next]_vars

\* ------------------------------------------------------ history operators
\* the handler goroutines spawned for the event with payload m, in spawn order
InvFor(m) == SelectSeq(inv, LAMBDA x : x.msg = m)

\* the handler goroutines that have started and not finished
Running == {i \in 1..Len(inv) : inv[i].st = "running"}

\* the loop has finished starting handlers for the dequeued event r
Completed(r) ==
    ~(lpc \in {"snap", "unlock", "add", "go"} /\ evt.message = r.message)

\* the event with payload m is nowhere in the bus
Absent(m) ==
    /\ \A i \in 1..Len(eventch) : eventch[i].message # m
    /\ evt.message # m
    /\ \A i \in 1..Len(inv) : inv[i].msg # m
    /\ \A i \in 1..Len(snapLog) : snapLog[i].message # m

\* ---------------------------------------------------------------- claims

\* C1: every emit call ends as 'enqueued' or 'dropped' and never raises a
\* fault, also when it overlaps a concurrent stop().
C1_EmitNeverFaults ==
    /\ fault # "sendOnClosed"
    /\ \A p \in Emitters : epc[p].pc # "panicked"

\* C2: once stop() has returned, the in-flight count is zero and no handler
\* invocation is running (so none has been started since).
C2_QuiescentAfterStop ==
    stopReturned => (wgCount = 0 /\ Running = {})

\* C3: an emit call that begins after stop() has returned is a no-op: it
\* returns in its first step, changes nothing of the bus, and its event is
\* never enqueued, dequeued or handed to a handler.
C3_LateEmitIsNoop ==
    /\ [](\A k \in 1..Len(emitLog) :
             emitLog[k].late =>
                /\ emitLog[k].outcome = "droppedClosed"
                /\ Absent(k)
                /\ \A p \in Emitters : epc[p].message # k)
    /\ [][(emitCalls' = emitCalls + 1 /\ stopReturned)
             => (UNCHANGED progVars /\ UNCHANGED epc)]_vars

\* C3 witness: an emit call made after stop() returned has completed.
C3_Witness ==
    \E k \in 1..Len(emitLog) :
        emitLog[k].late /\ emitLog[k].outcome = "droppedClosed"

\* C4: a handler invocation that panics is isolated: the process, and with
\* it the dispatch loop and the other handler invocations, keeps running.
C4_HandlerFaultIsolated ==
    (\E i \in 1..Len(inv) : inv[i].st = "panicked") => Alive

\* C5: the shutdown body runs at most once whatever the number of stop()
\* calls, and no stop() call ends in a fault.
C5_StopOnceAndReturns ==
    /\ stopBodyRuns <= 1
    /\ \A s \in Stoppers : spc[s] # "panicked"

\* the event and the emit-call record of the dequeued event r
TopicOf(r) == emitLog[r.message].topic

\* the invocations of subscription sub for the event with payload m
InvOf(m, sub) == {i \in 1..Len(inv) : inv[i].msg = m /\ inv[i].sub = sub}

\* C6: on a running bus, N subscribe calls on a topic followed by one emit
\* on it (no unsubscribe, no stop, no subscribe between the emit and its
\* dispatch) give exactly N handler invocations for that event: one per
\* subscription, each with the emitted payload.
C6_NSubscribersNInvocations ==
    (stopBodyRuns = 0 /\ unsubCalls = 0) =>
        \A j \in 1..Len(snapLog) :
            LET r == snapLog[j]
                e == emitLog[r.message]
                expected == {k \in 1..e.nsub : issued[k].Topic = e.topic}
            IN (Completed(r) /\ r.nsub = e.nsub) =>
                  /\ Len(InvFor(r.message)) = Cardinality(expected)
                  /\ \A k \in expected :
                        Cardinality(InvOf(r.message, issued[k])) = 1

\* C6 witness: an event emitted after two subscribe calls on its topic has
\* been dispatched to both.
C6_Witness ==
    /\ stopBodyRuns = 0
    /\ unsubCalls = 0
    /\ \E j \in 1..Len(snapLog) :
          LET r == snapLog[j]
              e == emitLog[r.message]
          IN /\ Completed(r)
             /\ r.nsub = e.nsub
             /\ Cardinality({k \in 1..e.nsub : issued[k].Topic = e.topic}) = 2
             /\ Len(InvFor(r.message)) = 2

\* C7: unsubscribe(s) removes only the entry with s.ID on s.Topic: every
\* other list of the registry, and the rest of that list in its order, is
\* left as it was, and the subscriptions left are still invoked, once each,
\* for the events dispatched afterwards (as long as stop has not begun).
C7_UnsubscribeRemovesOnlyThat ==
    /\ [][unsubCalls' = unsubCalls + 1 =>
            \A t \in Topics :
                Lookup(subs', t) =
                    SelectSeq(Lookup(subs, t),
                              LAMBDA x : ~(x.ID = lastUnsub'.ID
                                           /\ t = lastUnsub'.Topic))]_vars
    /\ [](stopBodyRuns = 0 =>
            \A j \in 1..Len(snapLog) :
                LET r == snapLog[j]
                IN Completed(r) =>
                      \A k \in 1..r.nsub :
                          (issued[k].Topic = TopicOf(r)
                           /\ issued[k].ID \notin r.removed)
                             => Cardinality(InvOf(r.message, issued[k])) = 1)

\* C7 witness: of two subscriptions on a topic one was unsubscribed, and an
\* event dispatched afterwards was handed to the other.
C7_Witness ==
    /\ stopBodyRuns = 0
    /\ \E j \in 1..Len(snapLog) :
          LET r == snapLog[j]
          IN /\ Completed(r)
             /\ \E k1, k2 \in 1..r.nsub :
                   /\ issued[k1].Topic = TopicOf(r)
                   /\ issued[k2].Topic = TopicOf(r)
                   /\ issued[k1].ID \in r.removed
                   /\ issued[k2].ID \notin r.removed
                   /\ InvOf(r.message, issued[k2]) # {}

\* C8: an emit that finds the queue holding QueueCap events returns in that
\* step, leaves the queue as it was, and its event is never dequeued nor
\* handed to a handler.
C8_FullQueueDrops ==
    /\ [][\A p \in Emitters :
            (epc[p].pc = "send" /\ epc'[p].pc # "send"
             /\ ~chClosed /\ Len(eventch) = QueueCap)
               => (eventch' = eventch /\ epc'[p].pc = "idle"
                   /\ fault' = "none")]_vars
    /\ [](\A k \in 1..Len(emitLog) :
             emitLog[k].outcome = "droppedFull" => Absent(k))

\* C8 witness: an event was dropped on a full queue and the loop has
\* dequeued from the queue since.
C8_Witness ==
    /\ \E k \in 1..Len(emitLog) : emitLog[k].outcome = "droppedFull"
    /\ Len(eventch) < QueueCap

\* C9: the handlers started for an event are those of the registry list of
\* its topic at the snapshot instant, in that order: none that was
\* unsubscribed before it, and none added or removed afterwards.
C9_InvokedIsSnapshot ==
    \A j \in 1..Len(snapLog) :
        LET r == snapLog[j]
            got == InvFor(r.message)
        IN /\ Len(got) <= Len(r.reg)
           /\ \A i \in 1..Len(got) :
                 got[i].sub = r.reg[i] /\ got[i].sub.ID \notin r.removed
           /\ Completed(r) => Len(got) = Len(r.reg)

\* C9 witness: an event has been dispatched to its snapshot while subscribe
\* or unsubscribe has since changed the registry list of its topic.
C9_Witness ==
    /\ stopBodyRuns = 0
    /\ \E j \in 1..Len(snapLog) :
          LET r == snapLog[j]
          IN /\ Completed(r)
             /\ Len(r.reg) > 0
             /\ Len(InvFor(r.message)) = Len(r.reg)
             /\ Lookup(subs, TopicOf(r)) # r.reg

\* C10: the ids subscribe returns are strictly increasing in issue order,
\* hence pairwise distinct and never reused, also after unsubscribe or stop.
C10_IdsIncrease ==
    /\ \A k \in 1..Len(issued) : issued[k].ID >= 1
    /\ \A j, k \in 1..Len(issued) : j < k => issued[j].ID < issued[k].ID

\* C10 witness: subscribe has issued an id after stop() returned, and
\* another before.
C10_Witness ==
    /\ stopReturned
    /\ DOMAIN subs # {}
    /\ Len(issued) >= 2

\* the subscriptions on topic t that are registered now: issued since the
\* registry was last cleared and not passed to unsubscribe
Registered(t) ==
    {issued[k] : k \in {j \in (issuedAtClear + 1)..Len(issued) :
                          /\ issued[j].Topic = t
                          /\ issued[j].ID \notin removedIds}}

\* C11: in every reachable state, whatever subscribe, unsubscribe and stop
\* calls came before, no topic of the registry is bound to an empty list, and
\* a topic is a key of the registry exactly when at least one subscription
\* on it is registered
C11_NoEmptyTopic ==
    /\ DOMAIN subs \subseteq Topics
    /\ \A t \in DOMAIN subs : Len(subs[t]) > 0
    /\ \A t \in Topics : t \in DOMAIN subs <=> Registered(t) # {}

\* the last subscription of one topic was unsubscribed and its key is gone,
\* while another topic is still registered
C11_Witness ==
    /\ stopBodyRuns = 0
    /\ DOMAIN subs # {}
    /\ \E k \in 1..Len(issued) :
          /\ issued[k].ID \in removedIds
          /\ issued[k].Topic \notin DOMAIN subs

\* the payloads of the events the queue accepted, in enqueue order (the
\* emitter's calls follow one another, so call order is enqueue order)
Accepted ==
    SelectSeq([k \in 1..Len(emitLog) |-> k],
              LAMBDA k : emitLog[k].outcome = "enqueued")

\* C12: the loop takes the events in the order they were enqueued: the i-th
\* event it dequeues and snapshots is the i-th event accepted by the queue,
\* and the handler goroutines of an earlier event are all started before
\* those of a later one, whatever the topics of the events
C12_FifoDispatch ==
    /\ Len(snapLog) <= Len(Accepted)
    /\ \A i \in 1..Len(snapLog) : snapLog[i].message = Accepted[i]
    /\ lpc = "snap" =>
          /\ Len(snapLog) < Len(Accepted)
          /\ evt.message = Accepted[Len(snapLog) + 1]
    /\ \A i, j \in 1..Len(inv) : i < j => inv[i].msg <= inv[j].msg

\* two events were dequeued and handlers were started for both
C12_Witness ==
    /\ Len(snapLog) >= 2
    /\ \E i, j \in 1..Len(inv) :
          /\ inv[i].msg = snapLog[1].message
          /\ inv[j].msg = snapLog[2].message

\* C13: a handler subscribed to a topic is started only for events emitted on
\* exactly that topic, and the dispatch of an event whose topic has no
\* subscriber at the snapshot starts no handler and raises no fault
C13_TopicIsolation ==
    /\ [](\A i \in 1..Len(inv) :
            inv[i].sub.Topic = emitLog[inv[i].msg].topic)
    /\ [](\A k \in 1..Len(snapLog) :
            Len(snapLog[k].reg) = 0 => InvFor(snapLog[k].message) = <<>>)
    /\ [][(lpc = "unlock" /\ lpc' # "unlock" /\ handlers = <<>>)
            => (lpc' = "select" /\ inv' = inv /\ fault' = fault)]_vars

\* an event was dispatched on a topic without subscribers while the other
\* topic had one, and an event on that other topic reached its handler
C13_Witness ==
    /\ lpc = "select"
    /\ \E k \in 1..Len(snapLog) :
          /\ Len(snapLog[k].reg) = 0
          /\ snapLog[k].nsub > 0
          /\ snapLog[k].removed = {}
    /\ stopBodyRuns = 0
    /\ Len(inv) > 0

\* the Subscription sub is in the registry m
InRegistry(m, sub) ==
    \E i \in 1..Len(Lookup(m, sub.Topic)) : Lookup(m, sub.Topic)[i].ID = sub.ID

\* C14: an unsubscribe call whose subscription is no longer registered, or
\* whose topic is not a key of the registry, leaves the registry as it was and
\* raises no fault; unsubscribing the same handle twice gives the registry
\* that unsubscribing it once gives
C14_UnsubscribeNoop ==
    /\ [][(unsubCalls' = unsubCalls + 1 /\ ~InRegistry(subs, lastUnsub'))
            => (subs' = subs /\ fault' = fault)]_vars
    /\ [](\A sub \in Handles :
            Unsubscribed(Unsubscribed(subs, sub), sub) = Unsubscribed(subs, sub))

\* a handle was passed to unsubscribe a second time while another
\* subscription of its topic was registered
C14_Witness ==
    /\ unsubCalls = 2
    /\ Cardinality(removedIds) = 1
    /\ lastUnsub.Topic \in DOMAIN subs
    /\ stopBodyRuns = 0

\* C15: no stop() call returns while a handler goroutine that was started is
\* still running
C15_StopWaitsForHandlers ==
    [][\A s \in Stoppers :
          (spc[s] # "idle" /\ spc'[s] = "idle") => Running' = {}]_vars

\* C16: a handler registered by a subscribe call made after stop() returned
\* is never started
C16_LateSubscriberNeverInvoked ==
    stopReturned =>
        \A i \in 1..Len(inv) :
            \A k \in (issuedAtStopReturn + 1)..Len(issued) :
                inv[i].sub # issued[k]

\* C17: when the first stop() call completes, the registry holds none of the
\* subscriptions that were registered before stop() cleared it, so none of
\* those registered before stop() was called, whatever subscribe and
\* unsubscribe calls came before; the clearing step leaves the registry empty
C17_StopDropsSubscriptions ==
    /\ [][\A s \in Stoppers :
            (spc[s] = "clear" /\ spc'[s] # "clear") => subs' = <<>>]_vars
    /\ [][(~stopReturned /\ stopReturned') =>
            \A k \in 1..issuedAtClear' : ~InRegistry(subs', issued[k])]_vars

\* stop() has returned, and subscriptions that were never unsubscribed were
\* registered on both topics when it cleared the registry
C17_Witness ==
    /\ stopReturned
    /\ \A t \in Topics :
          \E k \in 1..issuedAtClear :
              issued[k].Topic = t /\ issued[k].ID \notin removedIds

\* C18: stop() returns only after the dispatch loop has exited, so after a
\* stop() call has returned the loop is not dequeuing, snapshotting or
\* adding to the join set
C18_StopAfterLoopExit ==
    stopReturned => lpc = "exited"

\* C19: once stop() has set the cancellation signal, the loop dequeues no
\* further event
C19_NoDequeueAfterCancel ==
    [][cancelled => ~(lpc = "select" /\ lpc' = "snap")]_vars

\* C20: from the step of stop() that marks the bus closed onward, no emit
\* adds an event to the queue
C20_NoEnqueueAfterClosed ==
    [][closed => Len(eventch') <= Len(eventch)]_vars

\* C21: a handler invocation is counted in the join set before it starts and
\* uncounted only when it has completed: in every reachable state the
\* WaitGroup counter is not negative and is at least the number of handler
\* goroutines started and not completed, plus the one about to be started
C21_JoinSetCoversRunning ==
    /\ wgCount >= 0
    /\ wgCount >= Cardinality(Running) + (IF lpc = "go" THEN 1 ELSE 0)

\* one handler has completed, another is running, and the loop has counted a
\* third it is about to start
C21_Witness ==
    /\ lpc = "go"
    /\ Running # {}
    /\ \E i \in 1..Len(inv) : inv[i].st = "done"

\* C22: the loop and every handler goroutine share the one context e.ctx,
\* and only stop() cancels it: it is not cancelled while no stop() call has
\* begun, the only step that cancels it is the cancel step of stop(), so no
\* emit, subscribe, unsubscribe or handler completion does, and once
\* cancelled it stays cancelled
C22_StopIsOnlyCancel ==
    /\ [](stopCalls = 0 => ~cancelled)
    /\ [][(~cancelled /\ cancelled') =>
            \E s \in Stoppers : spc[s] = "cancel" /\ spc'[s] = "close"]_vars
    /\ [][cancelled => cancelled']_vars

\* the context is cancelled while one handler is running and another has
\* completed
C22_Witness ==
    /\ cancelled
    /\ Running # {}
    /\ \E i \in 1..Len(inv) : inv[i].st = "done"

\* C23: handler execution never blocks subscribe or unsubscribe: the loop
\* holds the registry lock only between its RLock and its RUnlock, around the
\* copy, and can always release it; the lock is free while handlers are being
\* started, and whenever it is free a subscribe and an unsubscribe call can
\* run to completion, whatever handlers are running (so also when the caller
\* is itself a handler)
C23_HandlersNeverBlockRegistry ==
    /\ mu \in {0, 1}
    /\ mu > 0 <=> lpc = "unlock"
    /\ (Alive /\ lpc = "unlock") => ENABLED LoopUnlock
    /\ (Alive /\ Ops < MaxOps /\ lpc # "unlock") =>
          /\ \A t \in Topics : ENABLED Subscribe(t)
          /\ \A sub \in Handles : ENABLED Unsubscribe(sub)

\* a handler of the first event is still running, the loop has since taken
\* the snapshot of a second event, and a subscribe call has completed after
\* that snapshot
C23_Witness ==
    /\ Len(snapLog) >= 2
    /\ \E i \in Running : inv[i].msg = snapLog[1].message
    /\ Len(issued) > snapLog[2].nsub
    /\ lpc # "unlock"

\* C24: in every reachable state the number of events pending in the queue
\* is between 0 and the capacity of 128, however many emits run before the
\* loop takes an event
C24_QueueWithinCapacity ==
    /\ Len(eventch) >= 0
    /\ Len(eventch) <= QueueCap
    /\ QueueCap = 128

\* the queue is full and an emit call made on the full queue has returned
C24_Witness ==
    /\ Len(eventch) = QueueCap
    /\ \E k \in 1..Len(emitLog) : emitLog[k].outcome = "droppedFull"

\* C25: while stop() is not called, every event the queue accepted is
\* eventually dequeued and dispatched by the loop; so in no reachable state
\* is an accepted event still pending, stop() uncalled, and the program
\* ended, unable to take the event
C25_AcceptedEventIsDispatched ==
    (stopCalls = 0 /\ Len(eventch) > 0) => Alive

====
